---- MODULE Spec2Model ----
(***************************************************************************)
(* Link reachability pass of seo_audit.py: analyze_links builds the        *)
(* internal/external lists from the anchors of a page, creates one         *)
(* check_link coroutine per retained anchor, awaits asyncio.gather over    *)
(* them and derives broken_links from the gathered results.                *)
(*                                                                         *)
(* Strings are sequences of lexical tokens ("https:", "//", "site", ".",   *)
(* ...), so that `base_url in full_url` is sub-sequence containment and    *)
(* urljoin is a computation on the parts of a URL.                         *)
(***************************************************************************)
EXTENDS Naturals, Sequences, FiniteSets

VARIABLES
    base_url,        \* argument of analyze_links (the audited page's URL)
    links,           \* soup.find_all("a", href=True): the hrefs, document order
    pc,              \* position of analyze_links: start, gather, done, raised
    internal_links,  \* list built by the loop
    external_links,  \* list built by the loop
    tasks,           \* the check_link coroutines (their url argument), in order
    tstate,          \* per task: "created", "inflight", "done"
    response,        \* per task: what the probe observed (NoOutcome before)
    taskres,         \* per task: what check_link returned / raised
    attempts,        \* per task: number of session.head requests issued
    order,           \* task indices in the order the probes completed
    broken_links     \* list derived from the gathered results

vars == <<base_url, links, pc, internal_links, external_links, tasks, tstate,
          response, taskres, attempts, order, broken_links>>

\* ------------------------------------------------------------------ bounds
\* most anchors in a document
MaxAnchors == 3

\* links[:50]; the slice length, scaled down so that documents longer than
\* the slice are enumerable
LinkCap == 2

\* ------------------------------------------------------------- input data
Schemes == {"https:", "http:"}

Site == <<"https:", "//", "site", ".", "example">>
SitePost == <<"https:", "//", "site", ".", "example", "/", "blog", "/", "post">>

BaseUrls == {Site, SitePost}

HrefAbout == <<"/", "about">>
HrefAboutAbs == <<"https:", "//", "site", ".", "example", "/", "about">>
HrefRel == <<"x">>
HrefOther == <<"https:", "//", "other", ".", "example", "/", "x">>
HrefEvil == <<"https:", "//", "site", ".", "example", ".", "evil", ".", "com", "/", "x">>
HrefQuery == <<"https:", "//", "other", ".", "example", "/", "x", "?", "u", "=",
               "https:", "//", "site", ".", "example">>

Hrefs == {HrefAbout, HrefAboutAbs, HrefRel, HrefOther, HrefEvil, HrefQuery}

\* what a HEAD probe can observe: a response status, a transport-level
\* exception, or no answer within the request timeout
Statuses == {200, 399, 400, 404}
Failures == {"transport_error", "timeout"}
Outcomes ==
    {[kind |-> "response", status |-> st] : st \in Statuses}
    \cup {[kind |-> f, status |-> 0] : f \in Failures}
NoOutcome == [kind |-> "none", status |-> 0]

Min(a, b) == IF a < b THEN a ELSE b

SeqsUpTo(S, n) == UNION {[1..k -> S] : k \in 0..n}

Range(s) == {s[i] : i \in 1..Len(s)}

\* ------------------------------------------------------------ URL helpers
\* index of the first token of s, at or after from, that is in stops;
\* Len(s) + 1 when there is none
RECURSIVE FirstIn(_, _, _)
FirstIn(s, from, stops) ==
    IF from > Len(s) THEN Len(s) + 1
    ELSE IF s[from] \in stops THEN from
    ELSE FirstIn(s, from + 1, stops)

\* urlparse: the parts of a URL
HasScheme(u) == Len(u) > 0 /\ u[1] \in Schemes
SchemeOf(u) == IF HasScheme(u) THEN <<u[1]>> ELSE <<>>
AfterScheme(u) == IF HasScheme(u) THEN SubSeq(u, 2, Len(u)) ELSE u
HasNetloc(u) == Len(AfterScheme(u)) > 0 /\ AfterScheme(u)[1] = "//"
NetlocEnd(u) == FirstIn(AfterScheme(u), 2, {"/", "?", "#"})
NetlocOf(u) ==
    IF HasNetloc(u) THEN SubSeq(AfterScheme(u), 2, NetlocEnd(u) - 1) ELSE <<>>
AfterNetloc(u) ==
    IF HasNetloc(u)
    THEN SubSeq(AfterScheme(u), NetlocEnd(u), Len(AfterScheme(u)))
    ELSE AfterScheme(u)
PathOf(u) == SubSeq(AfterNetloc(u), 1, FirstIn(AfterNetloc(u), 1, {"?", "#"}) - 1)
QueryOf(u) ==
    SubSeq(AfterNetloc(u), FirstIn(AfterNetloc(u), 1, {"?", "#"}), Len(AfterNetloc(u)))

\* scheme + host (+ port): the netloc carries the port
Origin(u) == <<SchemeOf(u), NetlocOf(u)>>

\* index of the last "/" of a path, 0 when there is none
RECURSIVE LastSlash(_, _)
LastSlash(p, i) ==
    IF i = 0 THEN 0 ELSE IF p[i] = "/" THEN i ELSE LastSlash(p, i - 1)

\* the base path without its last segment, ending in "/"
BaseDir(p) == IF LastSlash(p, Len(p)) = 0 THEN <<"/">> ELSE SubSeq(p, 1, LastSlash(p, Len(p)))

\* urllib.parse.urljoin(base, url)
UrlJoin(base, url) ==
    IF url = <<>> THEN base
    ELSE IF HasScheme(url) /\ SchemeOf(url) # SchemeOf(base) THEN url
    ELSE IF HasNetloc(url) THEN SchemeOf(base) \o AfterScheme(url)
    ELSE IF PathOf(url) = <<>>
         THEN SchemeOf(base) \o <<"//">> \o NetlocOf(base) \o PathOf(base)
              \o (IF QueryOf(url) = <<>> THEN QueryOf(base) ELSE QueryOf(url))
    ELSE IF PathOf(url)[1] = "/"
         THEN SchemeOf(base) \o <<"//">> \o NetlocOf(base) \o AfterNetloc(url)
    ELSE SchemeOf(base) \o <<"//">> \o NetlocOf(base) \o BaseDir(PathOf(base))
         \o AfterNetloc(url)

\* needle in hay (Python's substring test on str)
Contains(needle, hay) ==
    \E i \in 0..Len(hay) :
        /\ i + Len(needle) <= Len(hay)
        /\ SubSeq(hay, i + 1, i + Len(needle)) = needle

\* ---------------------------------------------------------- analyze_links
\* the slice taken one element too long
TruncateOneMore(ls) == SubSeq(ls, 1, Min(Len(ls), LinkCap + 1))

\* links[:50]
Truncate(ls) == SubSeq(ls, 1, Min(Len(ls), LinkCap))

\* full_url of every retained anchor, document order
FullUrls(base, ls) == [i \in 1..Len(Truncate(ls)) |-> UrlJoin(base, Truncate(ls)[i])]

\* `if base_url in full_url`
IsInternal(base, full_url) == Contains(base, full_url)

\* internal_links after the loop
InternalOf(base, ls) ==
    LET in(u) == IsInternal(base, u) IN SelectSeq(FullUrls(base, ls), in)

\* external_links after the loop
ExternalOf(base, ls) ==
    LET out(u) == ~IsInternal(base, u) IN SelectSeq(FullUrls(base, ls), out)

\* tasks after the loop: both branches append check_link(session, full_url)
TasksOf(base, ls) == FullUrls(base, ls)

\* ------------------------------------------------------------- check_link
\* check_link without its except branch: the exception leaves the coroutine
CheckLinkUncaught(url, observed) ==
    IF observed.kind = "response"
    THEN [kind |-> "return", url |-> url, is_valid |-> observed.status < 400]
    ELSE [kind |-> "raise", url |-> url, is_valid |-> FALSE]

\* what the coroutine ends with, given what the probe observed: the status
\* test on a response, (url, False) from the except branch otherwise
CheckLink(url, observed) ==
    IF observed.kind = "response"
    THEN [kind |-> "return", url |-> url, is_valid |-> observed.status < 400]
    ELSE [kind |-> "return", url |-> url, is_valid |-> FALSE]

NotRun == [kind |-> "pending", url |-> <<>>, is_valid |-> FALSE]

\* --------------------------------------------------------- asyncio.gather
\* results collected as the tasks complete (asyncio.as_completed style)
GatherAsCompleted(res, completion) == [k \in 1..Len(completion) |-> res[completion[k]]]

\* results are in the order of the awaitables passed in
Gather(res, completion) == [i \in 1..Len(res) |-> res[i]]

\* [url for url, is_valid in results if not is_valid]
RECURSIVE BrokenOf(_)
BrokenOf(results) ==
    IF results = <<>> THEN <<>>
    ELSE (IF Head(results).is_valid THEN <<>> ELSE <<Head(results).url>>)
         \o BrokenOf(Tail(results))

Started == {i \in 1..Len(tasks) : tstate[i] # "created"}
InFlight == {i \in 1..Len(tasks) : tstate[i] = "inflight"}
Finished == {i \in 1..Len(tasks) : tstate[i] = "done"}
Raised == {i \in 1..Len(tasks) : taskres[i].kind = "raise"}

\* ----------------------------------------------------------------- states
Init ==
    /\ base_url \in BaseUrls
    /\ links \in SeqsUpTo(Hrefs, MaxAnchors)
    /\ pc = "start"
    /\ internal_links = <<>>
    /\ external_links = <<>>
    /\ tasks = <<>>
    /\ tstate = <<>>
    /\ response = <<>>
    /\ taskres = <<>>
    /\ attempts = <<>>
    /\ order = <<>>
    /\ broken_links = <<>>

\* lines 65-80: the loop over links[:50]; no await inside it
Extract ==
    /\ pc = "start"
    /\ internal_links' = InternalOf(base_url, links)
    /\ external_links' = ExternalOf(base_url, links)
    /\ tasks' = TasksOf(base_url, links)
    /\ tstate' = [i \in 1..Len(tasks') |-> "created"]
    /\ response' = [i \in 1..Len(tasks') |-> NoOutcome]
    /\ taskres' = [i \in 1..Len(tasks') |-> NotRun]
    /\ attempts' = [i \in 1..Len(tasks') |-> 0]
    /\ pc' = "gather"
    /\ UNCHANGED <<base_url, links, order, broken_links>>

\* first step of the i-th task: session.head(url, timeout=5) is issued.
\* gather schedules the tasks in order and the event loop runs their first
\* steps first-in first-out.
StartProbe(i) ==
    /\ pc = "gather"
    /\ i \in 1..Len(tasks)
    /\ tstate[i] = "created"
    /\ \A j \in 1..(i - 1) : tstate[j] # "created"
    /\ tstate' = [tstate EXCEPT ![i] = "inflight"]
    /\ attempts' = [attempts EXCEPT ![i] = @ + 1]
    /\ UNCHANGED <<base_url, links, pc, internal_links, external_links, tasks,
                   response, taskres, order, broken_links>>

\* the i-th probe ends: a response arrives, the transport fails, or the
\* 5 second timeout fires; check_link returns. I/O is polled only after the
\* ready first steps of all tasks have run.
ProbeEnds(i, observed) ==
    /\ pc = "gather"
    /\ i \in 1..Len(tasks)
    /\ tstate[i] = "inflight"
    /\ Started = 1..Len(tasks)
    /\ tstate' = [tstate EXCEPT ![i] = "done"]
    /\ response' = [response EXCEPT ![i] = observed]
    /\ taskres' = [taskres EXCEPT ![i] = CheckLink(tasks[i], observed)]
    /\ order' = Append(order, i)
    /\ UNCHANGED <<base_url, links, pc, internal_links, external_links, tasks,
                   attempts, broken_links>>

\* lines 82-85: gather hands back the results once every task has returned
\* (or re-raises the first exception of a task as soon as there is one),
\* broken_links is derived and analyze_links returns
GatherReturns ==
    /\ pc = "gather"
    /\ Finished = 1..Len(tasks) \/ Raised # {}
    /\ IF Raised # {}
       THEN /\ pc' = "raised"
            /\ UNCHANGED broken_links
       ELSE /\ pc' = "done"
            /\ broken_links' = BrokenOf(Gather(taskres, order))
    /\ UNCHANGED <<base_url, links, internal_links, external_links, tasks,
                   tstate, response, taskres, attempts, order>>

Next ==
    \/ Extract
    \/ \E i \in 1..Len(tasks) : StartProbe(i)
    \/ \E i \in 1..Len(tasks), o \in Outcomes : ProbeEnds(i, o)
    \/ GatherReturns

Spec == Init /\ [][Next]_vars

\* ------------------------------------------------- what the caller is told
\* the three returned lists are the whole output: a probed reference is
\* valid or is listed in broken_links
StatusOf(i) == IF taskres[i].is_valid THEN "Reachable" ELSE "Broken"

\* a resolved URL as the returned lists report it
ReportedStatus(u) ==
    IF u \in Range(broken_links) THEN "Broken"
    ELSE IF u \in Range(internal_links) \cup Range(external_links) THEN "Reachable"
    ELSE "NotReported"

Resolved(i) == UrlJoin(base_url, links[i])

Occurrences(u, s) == Cardinality({k \in 1..Len(s) : s[k] = u})

Succeeded(o) == o.kind = "response" /\ o.status < 400

\* the concurrency limit a caller would configure: any value below the slice
max_concurrency == LinkCap - 1

\* ------------------------------------------------------------------ claims

\* the anchors of the document resolve to pairwise different URLs: the
\* extracted references are the anchors themselves
DistinctInput ==
    \A i, j \in 1..Len(links) : Resolved(i) = Resolved(j) => i = j

\* C1: exactly-once accounting. For a batch of references (pairwise different
\* resolved URLs), after the check completes every resolved URL of the input
\* appears exactly once in the output and the total equals the number of
\* input references: nothing is dropped, nothing counted twice.
C1_ExactlyOnceAccounting ==
    (pc = "done" /\ DistinctInput) =>
        /\ Len(internal_links) + Len(external_links) = Len(links)
        /\ \A i \in 1..Len(links) :
               Occurrences(Resolved(i), internal_links \o external_links) = 1

\* C2: cap enforcement. With n > cap references (pairwise different resolved
\* URLs) the first cap references are probed, the n - cap others are never
\* probed and are each reported as Indeterminate.
C2_CapEnforcement ==
    (pc = "done" /\ DistinctInput /\ Len(links) > LinkCap) =>
        /\ Len(tasks) = LinkCap
        /\ \A i \in 1..LinkCap : tasks[i] = Resolved(i) /\ attempts[i] = 1
        /\ \A i \in (LinkCap + 1)..Len(links) :
               ReportedStatus(Resolved(i)) = "Indeterminate"

\* C3: bounded concurrency. At most max_concurrency probes are in flight at
\* any time.
C3_BoundedConcurrency == Cardinality(InFlight) <= max_concurrency

\* C4: status mapping. A probed reference is Reachable iff its probe returned
\* a status in [200,400), Broken iff it returned a status >= 400 or failed at
\* transport level, Indeterminate iff it timed out.
C4_StatusMapping ==
    pc = "done" =>
        \A i \in 1..Len(tasks) :
            /\ StatusOf(i) = "Reachable" <=>
                   (response[i].kind = "response" /\ response[i].status >= 200
                    /\ response[i].status < 400)
            /\ StatusOf(i) = "Broken" <=>
                   \/ (response[i].kind = "response" /\ response[i].status >= 400)
                   \/ response[i].kind = "transport_error"
            /\ StatusOf(i) = "Indeterminate" <=> response[i].kind = "timeout"

\* C5: timeout isolation. When a probe hangs until the timeout while another
\* probe got its response, the returned batch marks the hanging reference
\* Indeterminate and the probes that completed keep their Reachable/Broken
\* results.
C5_TimeoutIsolation ==
    (pc = "done" /\ \E h, c \in 1..Len(tasks) :
                       response[h].kind = "timeout" /\ response[c].kind = "response") =>
        \A i \in 1..Len(tasks) :
            IF response[i].kind = "timeout"
            THEN StatusOf(i) = "Indeterminate"
            ELSE StatusOf(i) = (IF Succeeded(response[i]) THEN "Reachable" ELSE "Broken")

\* C6: failure containment. No probe failure is raised to the caller; a
\* reference is requested at most once, and when the check returns every
\* reference was requested exactly once and carries the result of its own
\* probe, whatever happened to its siblings.
C6_FailureContainment ==
    /\ pc # "raised"
    /\ \A i \in 1..Len(tasks) : attempts[i] <= 1 /\ taskres[i].kind # "raise"
    /\ pc = "done" =>
           /\ \A i \in 1..Len(tasks) :
                  /\ attempts[i] = 1
                  /\ taskres[i].kind = "return"
                  /\ taskres[i].url = tasks[i]
                  /\ taskres[i].is_valid <=> Succeeded(response[i])
           /\ Len(broken_links)
                  = Cardinality({i \in 1..Len(tasks) : ~Succeeded(response[i])})

\* a probe failed and a sibling that completed after it kept its success
C6_Witness ==
    /\ pc = "done"
    /\ Len(tasks) = 2
    /\ \E i, j \in 1..Len(tasks) :
           /\ order = <<i, j>>
           /\ response[i].kind \in Failures
           /\ Succeeded(response[j])
           /\ taskres[j].is_valid
           /\ broken_links = <<tasks[i]>>

\* C7: deduplication. Anchors resolving to the same URL give one reference,
\* one probe and one result: no URL occurs twice in the lists.
C7_Deduplication ==
    pc = "done" =>
        /\ \A u \in Range(tasks) : Occurrences(u, tasks) = 1
        /\ \A u \in Range(internal_links) : Occurrences(u, internal_links) = 1
        /\ \A u \in Range(external_links) : Occurrences(u, external_links) = 1
        /\ \A u \in Range(broken_links) : Occurrences(u, broken_links) = 1

\* indices of the probed references whose probe did not succeed, ascending
RECURSIVE FailedFrom(_)
FailedFrom(i) ==
    IF i > Len(tasks) THEN <<>>
    ELSE (IF Succeeded(response[i]) THEN <<>> ELSE <<i>>) \o FailedFrom(i + 1)

\* C8: document order. Whatever the order in which the probes finished, the
\* broken list holds the broken references in the order of the reference
\* sequence.
C8_BrokenInDocumentOrder ==
    pc = "done" =>
        broken_links = [k \in 1..Len(FailedFrom(1)) |-> Resolved(FailedFrom(1)[k])]

\* two different broken references whose probes finished in reverse order
C8_Witness ==
    /\ pc = "done"
    /\ order = <<2, 1>>
    /\ Len(broken_links) = 2
    /\ broken_links[1] # broken_links[2]

\* C9: classification. A retained link is listed internal iff its resolved
\* URL has the origin of base_url, external otherwise.
C9_ClassificationByOrigin ==
    pc = "done" =>
        \A i \in 1..Len(tasks) :
            /\ tasks[i] \in Range(internal_links) <=> Origin(tasks[i]) = Origin(base_url)
            /\ tasks[i] \in Range(external_links) <=> Origin(tasks[i]) # Origin(base_url)

RECURSIVE SumTo(_, _)
SumTo(f, n) == IF n = 0 THEN 0 ELSE f[n] + SumTo(f, n - 1)

\* C10: when analyze_links returns, each of the first min(n, cap) anchors is
\* in exactly one of internal_links and external_links and was probed once:
\* len(internal) + len(external) = min(n, cap) = probes issued; broken_links
\* holds only listed URLs and is no longer than min(n, cap).
C10_RetainedAccounting ==
    pc = "done" =>
        /\ Len(internal_links) + Len(external_links) = Min(Len(links), LinkCap)
        /\ SumTo(attempts, Len(attempts)) = Min(Len(links), LinkCap)
        /\ Len(attempts) = Min(Len(links), LinkCap)
        /\ \A i \in 1..Len(attempts) : attempts[i] = 1
        /\ \A i \in 1..Min(Len(links), LinkCap) :
               /\ Resolved(i) \in Range(internal_links) \cup Range(external_links)
               /\ Resolved(i) \notin Range(internal_links) \cap Range(external_links)
               /\ Occurrences(Resolved(i), internal_links \o external_links)
                      = Cardinality({j \in 1..Min(Len(links), LinkCap) :
                                         Resolved(j) = Resolved(i)})
        /\ Range(broken_links) \subseteq Range(internal_links) \cup Range(external_links)
        /\ Len(broken_links) <= Min(Len(links), LinkCap)

\* a document longer than the slice, with a link in each list and a broken one
C10_Witness ==
    /\ pc = "done"
    /\ Len(links) > LinkCap
    /\ internal_links # <<>>
    /\ external_links # <<>>
    /\ broken_links # <<>>

====
